---- MODULE Spec2Model ----
(***************************************************************************)
(* itk::TractDistanceFilter (itkTractDistanceFilter.cpp): for every bundle *)
(* of m_Tracts1 the best matching bundle of m_Tracts2 under the metrics of *)
(* m_Metrics.  GenerateData resamples both collections sequentially and    *)
(* then runs the outer loop as an OpenMP parallel for; the three unnamed   *)
(* omp critical sections share one lock.                                   *)
(*                                                                         *)
(* Indices i, j, r, c are 0-based as in the C++ code; TLA+ sequences are   *)
(* 1-based, so T1.at(i) is T1[i + 1].                                      *)
(***************************************************************************)
EXTENDS Integers, Sequences, FiniteSets, TLC

VARIABLES
  pool,         \* the bundles the caller has at hand (environment)
  numThreads,   \* size of the OpenMP team (environment)
  m_NumPoints,  \* resample count
  m_Metrics,    \* vector of metric objects
  m_Tracts1,    \* first collection: vector of bundles
  m_Tracts2,    \* second collection
  m_Indices,    \* result: best match per bundle of m_Tracts1
  m_Distances,  \* result: distance of the best match
  disp,         \* progress display: [count, expected]
  phase,        \* where the caller / GenerateData is
  T1, T2,       \* locals of GenerateData: the resampled collections
  num_fibs1,    \* local of GenerateData
  num_fibs2,    \* local of GenerateData
  set_columns,  \* column indices handed to set_column by the last ResampleFibers
  todo,         \* outer indices of the parallel for not yet handed to a thread
  th,           \* per thread: position and locals of the loop body
  lock,         \* owner of the unnamed omp critical lock, 0 when free
  cout_rdbuf,   \* the stream buffer std::cout writes to
  old,          \* local of ResampleFibers: the saved buffer, "none" outside it
  metric_calls, \* history: CalculateDistance calls completed in this call
  after_call    \* history: this call began on results an earlier call left

vars == <<pool, numThreads, m_NumPoints, m_Metrics, m_Tracts1, m_Tracts2,
          m_Indices, m_Distances, disp, phase, T1, T2, num_fibs1, num_fibs2,
          set_columns, todo, th, lock, cout_rdbuf, old, metric_calls,
          after_call>>

(***************************************************************************)
(* Bounds of the model.                                                    *)
(***************************************************************************)
MaxThreads == 2
MaxBundles == 2
MaxMetrics == 2
MaxNumPoints == 3
MaxTracts == 2

(***************************************************************************)
(* Program constants.                                                      *)
(***************************************************************************)
DefaultNumPoints == 12
MinStart == 99999
DistSentinel == 99999

(***************************************************************************)
(* float.  A value is a pair <<n, d>>: the rational n/d in lowest terms    *)
(* with d > 0, +infinity <<1, 0>>, -infinity <<-1, 0>>, NaN <<0, 0>>.      *)
(* The metric values of the model are integers below 2^24 and a quotient   *)
(* has a divisor of at most a few units, where float addition is exact and *)
(* float comparison of two quotients agrees with the comparison of the     *)
(* rationals.                                                              *)
(***************************************************************************)
Abs(n) == IF n < 0 THEN -n ELSE n

RECURSIVE GCD(_, _)
GCD(a, b) == IF b = 0 THEN a ELSE GCD(b, a % b)

Norm(n, d) == LET g == GCD(Abs(n), d) IN <<n \div g, d \div g>>

NaN == <<0, 0>>
PosInf == <<1, 0>>
NegInf == <<-1, 0>>
Flt(n) == <<n, 1>>
IsNaN(x) == x = NaN
IsFinite(x) == x[2] > 0

\* operator< on float: false whenever an operand is NaN
FLess(x, y) ==
  /\ ~IsNaN(x)
  /\ ~IsNaN(y)
  /\ IF ~IsFinite(x) /\ ~IsFinite(y) THEN x[1] < y[1]
     ELSE x[1] * y[2] < y[1] * x[2]

\* operator+ on float
FAdd(x, y) ==
  IF IsNaN(x) \/ IsNaN(y) THEN NaN
  ELSE IF ~IsFinite(x) THEN (IF ~IsFinite(y) /\ y # x THEN NaN ELSE x)
  ELSE IF ~IsFinite(y) THEN y
  ELSE Norm(x[1] * y[2] + y[1] * x[2], x[2] * y[2])

\* float divided by an unsigned count converted to float
FDivCount(x, n) ==
  IF IsNaN(x) THEN NaN
  ELSE IF ~IsFinite(x) THEN x
  ELSE IF n = 0 THEN (IF x[1] = 0 THEN NaN ELSE IF x[1] > 0 THEN PosInf ELSE NegInf)
  ELSE Norm(x[1], x[2] * n)

\* double to float, for integer-valued doubles of magnitude below 2^25:
\* exact up to 2^24, above it the nearest even integer (ties to even mantissa)
NarrowToFloat(c) ==
  LET a == Abs(c)
      f == IF a <= 16777216 \/ a % 2 = 0 THEN a
           ELSE IF (a + 1) % 4 = 0 THEN a + 1 ELSE a - 1
  IN IF c < 0 THEN -f ELSE f

(***************************************************************************)
(* Data.  A point is <<x, y, z>>; a tract (one cell of the poly data) is a *)
(* sequence of points; a bundle (FiberBundle) is a sequence of tracts.  A  *)
(* curve (vnl_matrix<float>, 3 x m_NumPoints) is the sequence of its       *)
(* columns, each <<row 0, row 1, row 2>>.                                  *)
(***************************************************************************)
SeqsUpTo(S, n) == UNION {[1..k -> S] : k \in 0..n}

Line(x, n) == [j \in 1..n |-> <<x, 0, 0>>]

ZeroCurve(n) == [j \in 1..n |-> <<0, 0, 0>>]

(***************************************************************************)
(* FiberBundle, of which the repository's sources hold only the calls.     *)
(* GetDeepCopy yields a bundle of its own with the same tracts;            *)
(* ResampleToNumPoints leaves every tract its points by index, so that a   *)
(* cell reports as many points as its tract has (spec 4.1: the copy loop   *)
(* of ResampleFibers meets shorter and longer cells).                      *)
(***************************************************************************)
GetDeepCopy(tractogram) == tractogram

ResampleToNumPoints(fib, n) == [i \in 1..Len(fib) |-> fib[i]]

(***************************************************************************)
(* ClusteringMetric::CalculateDistance: a pure function of the two curves. *)
(* StartX is the distance of the first columns along x, StartY along y,    *)
(* EndX that of the last columns along x.  StartRatio is the quotient of   *)
(* the first columns' x (that of f2 not negative), a metric that is NaN    *)
(* for 0/0 and infinite for x/0.                                           *)
(***************************************************************************)
CalculateDistance(metric, f1, f2) ==
  IF metric = "StartX" THEN Flt(Abs(f1[1][1] - f2[1][1]))
  ELSE IF metric = "StartY" THEN Flt(Abs(f1[1][2] - f2[1][2]))
  ELSE IF metric = "StartRatio" THEN FDivCount(Flt(f1[1][1]), f2[1][1])
  ELSE Flt(Abs(f1[Len(f1)][1] - f2[Len(f2)][1]))

(***************************************************************************)
(* ResampleFibers.  The copy loop hands every j < numPoints to set_column, *)
(* which does not check j against the matrix's columns.  A write to a      *)
(* column j >= m_NumPoints is outside the row: the rows of a vnl_matrix    *)
(* lie one after the other in one block, so element (r, j) is the block's  *)
(* element r * m_NumPoints + j.  What such a write does is not defined;    *)
(* mode is the outcome: "outside" (it changes nothing of the matrix),      *)
(* "alias" (it lands in the block's element of that index, when there is   *)
(* one) or "abort" (the process ends).  mode is "inbounds" for a bundle    *)
(* all of whose cells fit.                                                 *)
(***************************************************************************)
PutElem(M, n, mode, r, j, v) ==
  IF j < n THEN [M EXCEPT ![j + 1][r + 1] = v]
  ELSE IF mode = "alias" /\ r * n + j < 3 * n
    THEN [M EXCEPT ![((r * n + j) % n) + 1][((r * n + j) \div n) + 1] = v]
  ELSE M

set_column(M, n, mode, j, candV) ==
  PutElem(PutElem(PutElem(M, n, mode, 0, j, candV[1]),
                  n, mode, 1, j, candV[2]),
          n, mode, 2, j, candV[3])

\* lines 82-90: for (int j=0; j<numPoints; j++), from j on
RECURSIVE CopyPoints(_, _, _, _, _)
CopyPoints(streamline, n, mode, points, j) ==
  IF j >= Len(points) THEN streamline
  ELSE LET cand == points[j + 1]
           candV == <<NarrowToFloat(cand[1]), NarrowToFloat(cand[2]),
                      NarrowToFloat(cand[3])>>
       IN CopyPoints(set_column(streamline, n, mode, j, candV),
                     n, mode, points, j + 1)

\* the vector of curves ResampleFibers returns
ResampleFibers(tractogram, n, mode) ==
  LET temp_fib == ResampleToNumPoints(GetDeepCopy(tractogram), n)
  IN [i \in 1..Len(temp_fib) |->
        CopyPoints(ZeroCurve(n), n, mode, temp_fib[i], 0)]

\* the column indices ResampleFibers hands to set_column
SetColumnIndices(tractogram, n) ==
  LET temp_fib == ResampleToNumPoints(GetDeepCopy(tractogram), n)
  IN UNION {0..(Len(temp_fib[i]) - 1) : i \in 1..Len(temp_fib)}

Overruns(tractogram, n) == \E j \in SetColumnIndices(tractogram, n) : j >= n

ResampleModes(tractogram, n) ==
  IF Overruns(tractogram, n) THEN {"outside", "alias", "abort"}
  ELSE {"inbounds"}

(***************************************************************************)
(* What the caller may hand to SetTracts1, SetTracts2 and SetMetrics.  A   *)
(* metric object is handed over once: the destructor deletes every element *)
(* of m_Metrics.                                                           *)
(***************************************************************************)
Collections == SeqsUpTo(pool, MaxBundles)

\* the metrics of the caller's registry, in its order
MetricOrder == <<"StartX", "EndX", "StartY">>

MetricSets ==
  {SubSeq(MetricOrder, 1, k) : k \in 0..MaxMetrics \cap 0..Len(MetricOrder)}

(***************************************************************************)
(* The bundles of the matcher's caller.  PoolNear: a bundle of two curves  *)
(* (one from a tract of a single point), starting at x = 0 and x = 3, and  *)
(* a bundle of one curve starting at x = 1.  PoolFar: a bundle further     *)
(* than 99999 from the others.  PoolEmpty: a bundle without tracts.        *)
(* PoolLong: a tract of one point more than m_NumPoints, at the origin.    *)
(***************************************************************************)
BundleNear == <<Line(0, DefaultNumPoints), Line(3, 1)>>
BundleOne == <<Line(1, DefaultNumPoints)>>
BundleFar == <<Line(100001, DefaultNumPoints)>>
BundleLong == <<Line(0, DefaultNumPoints + 1)>>

PoolNear == {BundleNear, BundleOne}
PoolFar == {BundleOne, BundleFar}
PoolEmpty == {BundleOne, <<>>}
PoolLong == {BundleOne, BundleLong}

Pools == {PoolNear, PoolFar, PoolEmpty, PoolLong}

Threads == 1..numThreads

\* the locals of a thread that is not inside the loop body
Idle == [pc |-> "for", i |-> 0, j |-> 0, m |-> 0, r |-> 0, c |-> 0,
         min_d |-> Flt(0), distance |-> Flt(0), d |-> Flt(0)]

CallerPhases == {"config", "returned", "failed"}

(***************************************************************************)
(* Constructor and setters (lines 24-60).                                  *)
(***************************************************************************)
Init ==
  /\ pool \in Pools
  /\ numThreads \in 1..MaxThreads
  /\ m_NumPoints = DefaultNumPoints
  /\ m_Metrics = <<>>
  /\ m_Tracts1 = <<>>
  /\ m_Tracts2 = <<>>
  /\ m_Indices = <<>>
  /\ m_Distances = <<>>
  /\ disp = [count |-> 0, expected |-> 0]
  /\ phase = "config"
  /\ T1 = <<>>
  /\ T2 = <<>>
  /\ num_fibs1 = 0
  /\ num_fibs2 = 0
  /\ set_columns = {}
  /\ todo = {}
  /\ th = [w \in Threads |-> Idle]
  /\ lock = 0
  /\ cout_rdbuf = "console"
  /\ old = "none"
  /\ metric_calls = 0
  /\ after_call = FALSE

\* the caller's next operation: the locals of the call that returned are gone
CallerMoves ==
  /\ phase \in CallerPhases
  /\ T1' = <<>>
  /\ T2' = <<>>
  /\ num_fibs1' = 0
  /\ num_fibs2' = 0
  /\ set_columns' = {}
  /\ metric_calls' = 0
  /\ after_call' = FALSE
  /\ UNCHANGED <<cout_rdbuf, old>>
  /\ UNCHANGED <<pool, numThreads, m_NumPoints, m_Indices, m_Distances, disp,
                 todo, th, lock>>

SetTracts1(Tracts1) ==
  /\ CallerMoves
  /\ m_Tracts1' = Tracts1
  /\ phase' = "config"
  /\ UNCHANGED <<m_Tracts2, m_Metrics>>

SetTracts2(Tracts2) ==
  /\ CallerMoves
  /\ m_Tracts2' = Tracts2
  /\ phase' = "config"
  /\ UNCHANGED <<m_Tracts1, m_Metrics>>

SetMetrics(Metrics) ==
  /\ CallerMoves
  /\ m_Metrics' = Metrics
  /\ phase' = "config"
  /\ UNCHANGED <<m_Tracts1, m_Tracts2>>

(***************************************************************************)
(* GenerateData, sequential part (lines 127-156).                          *)
(***************************************************************************)
\* line 129
NoMetricSelected == m_Metrics = <<>>

\* the check of line 129 placed below the clear() calls of lines 135-136
GenerateDataThrowsLate ==
  /\ phase \in CallerPhases
  /\ m_Metrics = <<>>
  /\ m_Indices' = <<>>
  /\ m_Distances' = <<>>
  /\ phase' = "failed"
  /\ UNCHANGED <<cout_rdbuf, old, metric_calls, after_call>>
  /\ UNCHANGED <<pool, numThreads, m_NumPoints, m_Metrics, m_Tracts1,
                 m_Tracts2, disp, T1, T2, num_fibs1, num_fibs2, set_columns,
                 todo, th, lock>>

\* lines 129-133: mitkThrow() << "No metric selected!"
GenerateDataThrows ==
  /\ phase \in CallerPhases
  /\ NoMetricSelected
  /\ phase' = "failed"
  /\ UNCHANGED <<cout_rdbuf, old, metric_calls, after_call>>
  /\ UNCHANGED <<pool, numThreads, m_NumPoints, m_Metrics, m_Tracts1,
                 m_Tracts2, m_Indices, m_Distances, disp, T1, T2, num_fibs1,
                 num_fibs2, set_columns, todo, th, lock>>

\* lines 137-141 without the clear() calls of lines 135-136
GenerateDataBeginKeeps ==
  /\ phase \in CallerPhases
  /\ ~NoMetricSelected
  /\ T1' = <<>>
  /\ T2' = <<>>
  /\ num_fibs1' = 0
  /\ num_fibs2' = 0
  /\ set_columns' = {}
  /\ phase' = "resample"
  /\ metric_calls' = 0
  /\ after_call' = (m_Indices # <<>> /\ disp.count > 0)
  /\ UNCHANGED <<pool, numThreads, m_NumPoints, m_Metrics, m_Tracts1,
                 m_Tracts2, m_Indices, m_Distances, disp, todo, th, lock,
                 cout_rdbuf, old>>

\* lines 135-141
GenerateDataBegin ==
  /\ phase \in CallerPhases
  /\ ~NoMetricSelected
  /\ m_Indices' = <<>>
  /\ m_Distances' = <<>>
  /\ T1' = <<>>
  /\ T2' = <<>>
  /\ num_fibs1' = 0
  /\ num_fibs2' = 0
  /\ set_columns' = {}
  /\ phase' = "resample"
  /\ metric_calls' = 0
  /\ after_call' = (m_Indices # <<>> /\ disp.count > 0)
  /\ UNCHANGED <<cout_rdbuf, old>>
  /\ UNCHANGED <<pool, numThreads, m_NumPoints, m_Metrics, m_Tracts1,
                 m_Tracts2, disp, todo, th, lock>>

\* lines 64-66 of ResampleFibers, entered from line 144 or line 149: the
\* buffer of std::cout is saved and replaced by that of a local stringstream
Redirect ==
  /\ phase = "resample"
  /\ old = "none"
  /\ Len(T1) < Len(m_Tracts1) \/ Len(T2) < Len(m_Tracts2)
  /\ old' = cout_rdbuf
  /\ cout_rdbuf' = "ss"
  /\ UNCHANGED <<pool, numThreads, m_NumPoints, m_Metrics, m_Tracts1,
                 m_Tracts2, m_Indices, m_Distances, disp, phase, T1, T2,
                 num_fibs1, num_fibs2, set_columns, todo, th, lock,
                 metric_calls, after_call>>

\* ResampleFibers without GetDeepCopy: the caller's bundle itself is resampled
Resample1InPlace ==
  /\ phase = "resample"
  /\ old # "none"
  /\ Len(T1) < Len(m_Tracts1)
  /\ cout_rdbuf' = old
  /\ old' = "none"
  /\ LET k == Len(T1) + 1
         out == ResampleFibers(m_Tracts1[k], m_NumPoints, "outside")
     IN /\ set_columns' = SetColumnIndices(m_Tracts1[k], m_NumPoints)
        /\ m_Tracts1' = [m_Tracts1 EXCEPT ![k] = out]
        /\ T1' = Append(T1, out)
        /\ num_fibs1' = num_fibs1 + Len(out)
  /\ UNCHANGED <<metric_calls, after_call>>
  /\ UNCHANGED <<pool, numThreads, m_NumPoints, m_Metrics, m_Tracts2,
                 m_Indices, m_Distances, disp, phase, T2, num_fibs2, todo, th,
                 lock>>

\* lines 67-96 and 144-145: the rest of ResampleFibers(t) and of the pass of
\* for (auto t : m_Tracts1) that called it
Resample1 ==
  /\ phase = "resample"
  /\ old # "none"
  /\ Len(T1) < Len(m_Tracts1)
  /\ LET t == m_Tracts1[Len(T1) + 1] IN
     \E mode \in ResampleModes(t, m_NumPoints) :
       /\ set_columns' = SetColumnIndices(t, m_NumPoints)
       /\ IF mode = "abort"
          THEN /\ phase' = "aborted"
               /\ UNCHANGED <<T1, num_fibs1, cout_rdbuf, old>>
          ELSE /\ T1' = Append(T1, ResampleFibers(t, m_NumPoints, mode))
               /\ num_fibs1' = num_fibs1 + Len(ResampleFibers(t, m_NumPoints, mode))
               /\ phase' = phase
               /\ cout_rdbuf' = old
               /\ old' = "none"
  /\ UNCHANGED <<metric_calls, after_call>>
  /\ UNCHANGED <<pool, numThreads, m_NumPoints, m_Metrics, m_Tracts1,
                 m_Tracts2, m_Indices, m_Distances, disp, T2, num_fibs2,
                 todo, th, lock>>

\* the same without line 95: the buffer of std::cout is not put back
Resample2NoRestore ==
  /\ phase = "resample"
  /\ old # "none"
  /\ Len(T1) = Len(m_Tracts1)
  /\ Len(T2) < Len(m_Tracts2)
  /\ LET t == m_Tracts2[Len(T2) + 1] IN
     \E mode \in ResampleModes(t, m_NumPoints) :
       /\ set_columns' = SetColumnIndices(t, m_NumPoints)
       /\ IF mode = "abort"
          THEN /\ phase' = "aborted"
               /\ UNCHANGED <<T2, num_fibs2, cout_rdbuf, old>>
          ELSE /\ T2' = Append(T2, ResampleFibers(t, m_NumPoints, mode))
               /\ num_fibs2' = num_fibs2 + Len(ResampleFibers(t, m_NumPoints, mode))
               /\ phase' = phase
               /\ cout_rdbuf' = cout_rdbuf
               /\ old' = "none"
  /\ UNCHANGED <<metric_calls, after_call>>
  /\ UNCHANGED <<pool, numThreads, m_NumPoints, m_Metrics, m_Tracts1,
                 m_Tracts2, m_Indices, m_Distances, disp, T1, num_fibs1,
                 todo, th, lock>>

\* lines 67-96 and 149-150: the same for a pass of for (auto t : m_Tracts2)
Resample2 ==
  /\ phase = "resample"
  /\ old # "none"
  /\ Len(T1) = Len(m_Tracts1)
  /\ Len(T2) < Len(m_Tracts2)
  /\ LET t == m_Tracts2[Len(T2) + 1] IN
     \E mode \in ResampleModes(t, m_NumPoints) :
       /\ set_columns' = SetColumnIndices(t, m_NumPoints)
       /\ IF mode = "abort"
          THEN /\ phase' = "aborted"
               /\ UNCHANGED <<T2, num_fibs2, cout_rdbuf, old>>
          ELSE /\ T2' = Append(T2, ResampleFibers(t, m_NumPoints, mode))
               /\ num_fibs2' = num_fibs2 + Len(ResampleFibers(t, m_NumPoints, mode))
               /\ phase' = phase
               /\ cout_rdbuf' = old
               /\ old' = "none"
  /\ UNCHANGED <<metric_calls, after_call>>
  /\ UNCHANGED <<pool, numThreads, m_NumPoints, m_Metrics, m_Tracts1,
                 m_Tracts2, m_Indices, m_Distances, disp, T1, num_fibs1,
                 todo, th, lock>>

\* std::vector::resize: the first n elements stay, new ones are value-initialised
resize(v, n, zero) == [k \in 1..n |-> IF k <= Len(v) THEN v[k] ELSE zero]

\* line 153: the argument of disp.restart
ExpectedCount == Len(m_Metrics) * num_fibs1 * num_fibs2

\* line 153 placed before the loop of lines 147-151
StartSearchEarly ==
  /\ phase = "resample"
  /\ old = "none"
  /\ Len(T1) = Len(m_Tracts1)
  /\ disp' = [count |-> 0, expected |-> ExpectedCount]
  /\ m_Indices' = resize(m_Indices, Len(T1), 0)
  /\ m_Distances' = resize(m_Distances, Len(T1), Flt(0))
  /\ todo' = 0..(Len(T1) - 1)
  /\ phase' = "search"
  /\ UNCHANGED <<cout_rdbuf, old, metric_calls, after_call>>
  /\ UNCHANGED <<pool, numThreads, m_NumPoints, m_Metrics, m_Tracts1,
                 m_Tracts2, T1, T2, num_fibs1, num_fibs2, set_columns, th, lock>>

\* lines 153-157: restart, resize (value-initialised), start of the parallel for
StartSearch ==
  /\ phase = "resample"
  /\ Len(T1) = Len(m_Tracts1)
  /\ Len(T2) = Len(m_Tracts2)
  /\ disp' = [count |-> 0, expected |-> ExpectedCount]
  /\ m_Indices' = resize(m_Indices, Len(T1), 0)
  /\ m_Distances' = resize(m_Distances, Len(T1), Flt(0))
  /\ todo' = 0..(Len(T1) - 1)
  /\ phase' = "search"
  /\ UNCHANGED <<cout_rdbuf, old, metric_calls, after_call>>
  /\ UNCHANGED <<pool, numThreads, m_NumPoints, m_Metrics, m_Tracts1,
                 m_Tracts2, T1, T2, num_fibs1, num_fibs2, set_columns, th, lock>>

(***************************************************************************)
(* calc_distance (lines 99-125), run by a thread for the pair (i, j).  Its *)
(* steps between two entries of the critical section touch only the        *)
(* thread's locals.                                                        *)
(***************************************************************************)
\* line 123: the divisor
Divisor(nT1, nT2, nMetrics) == nT1 * nMetrics

\* lines 102-109 and 119-122: the loop heads, from metric m (1-based) and curve
\* r of T1 on, up to the next pass of the innermost loop or the end of the loops
RECURSIVE NextPair(_, _, _, _, _, _)
NextPair(nMetrics, nT1, nT2, m, r, distance) ==
  IF m > nMetrics THEN [fin |-> TRUE, m |-> 0, r |-> 0, distance |-> distance]
  ELSE IF r >= nT1 THEN NextPair(nMetrics, nT1, nT2, m + 1, 0, distance)
  ELSE IF nT2 = 0
    THEN NextPair(nMetrics, nT1, nT2, m, r + 1, FAdd(distance, Flt(MinStart)))
  ELSE [fin |-> FALSE, m |-> m, r |-> r, distance |-> distance]

\* the thread's locals when the loop heads of calc_distance(T1.at(i), T2.at(j))
\* have run from (m, r) on: at the next ++disp, or back in GenerateData with d
AfterLoopHeads(i, j, m, r, distance) ==
  LET nT1 == Len(T1[i + 1])
      nT2 == Len(T2[j + 1])
      p == NextPair(Len(m_Metrics), nT1, nT2, m, r, distance)
  IN IF p.fin
     THEN [Idle EXCEPT !.pc = "enter_update", !.i = i, !.j = j,
                       !.d = FDivCount(p.distance,
                                       Divisor(nT1, nT2, Len(m_Metrics)))]
     ELSE [Idle EXCEPT !.pc = "enter_tick", !.i = i, !.j = j, !.m = p.m,
                       !.r = p.r, !.c = 0, !.min_d = Flt(MinStart),
                       !.distance = p.distance]

\* line 163: the head of the loop over T2, at j
InnerLoop(i, j) ==
  IF j < Len(T2) THEN AfterLoopHeads(i, j, 1, 0, Flt(0)) ELSE Idle

\* d <= best in the place of d < best
BetterOrEqual(d, best) == ~FLess(best, d)

\* one slot for every outer index
SlotShared(i) == 1

\* the counter moved twice per pass
IncrementedTwice(count) == count + 2

\* lines 115-116
Closer(d, min_d) == FLess(d, min_d)

\* line 168
Better(d, best) == FLess(d, best)

\* lines 162, 168-171: the result slot of outer index i (1-based position)
Slot(i) == i + 1

\* line 112
Incremented(count) == count + 1

(***************************************************************************)
(* calc_distance and the loop body of GenerateData as one thread runs them *)
(* from beginning to end.                                                  *)
(***************************************************************************)
\* lines 108-118: min_d after the passes c, c + 1, ... of the innermost loop
RECURSIVE MinOverT2(_, _, _, _, _)
MinOverT2(metric, f1, tracto2, c, min_d) ==
  IF c >= Len(tracto2) THEN min_d
  ELSE LET d == CalculateDistance(metric, f1, tracto2[c + 1])
       IN MinOverT2(metric, f1, tracto2, c + 1,
                    IF Closer(d, min_d) THEN d ELSE min_d)

\* lines 105-121: distance after the passes r, r + 1, ... of the loop over T1
RECURSIVE SumOverT1(_, _, _, _, _)
SumOverT1(metric, tracto1, tracto2, r, distance) ==
  IF r >= Len(tracto1) THEN distance
  ELSE SumOverT1(metric, tracto1, tracto2, r + 1,
                 FAdd(distance,
                      MinOverT2(metric, tracto1[r + 1], tracto2, 0, Flt(MinStart))))

\* lines 102-122: distance after the metrics m, m + 1, ... (1-based)
RECURSIVE SumOverMetrics(_, _, _, _, _)
SumOverMetrics(metrics, tracto1, tracto2, m, distance) ==
  IF m > Len(metrics) THEN distance
  ELSE SumOverMetrics(metrics, tracto1, tracto2, m + 1,
                      SumOverT1(metrics[m], tracto1, tracto2, 0, distance))

\* lines 99-125
calc_distance(tracto1, tracto2, metrics) ==
  FDivCount(SumOverMetrics(metrics, tracto1, tracto2, 1, Flt(0)),
            Divisor(Len(tracto1), Len(tracto2), Len(metrics)))

\* lines 163-173: the loop over T2 from j on, for outer index i, on the result
\* vectors res = <<indices, distances>>
RECURSIVE LoopOverT2(_, _, _, _, _, _)
LoopOverT2(T1s, T2s, metrics, i, j, res) ==
  IF j >= Len(T2s) THEN res
  ELSE LET d == calc_distance(T1s[i + 1], T2s[j + 1], metrics)
       IN LoopOverT2(T1s, T2s, metrics, i, j + 1,
            IF Better(d, res[2][Slot(i)])
            THEN <<[res[1] EXCEPT ![Slot(i)] = j], [res[2] EXCEPT ![Slot(i)] = d]>>
            ELSE res)

\* lines 158-174 run by one thread: the outer indices i, i + 1, ... in order
RECURSIVE LoopOverT1(_, _, _, _, _)
LoopOverT1(T1s, T2s, metrics, i, res) ==
  IF i >= Len(T1s) THEN res
  ELSE LoopOverT1(T1s, T2s, metrics, i + 1,
         LoopOverT2(T1s, T2s, metrics, i, 0,
           <<res[1], [res[2] EXCEPT ![Slot(i)] = Flt(DistSentinel)]>>))

\* lines 155-174 run by one thread
SingleThreadResult(T1s, T2s, metrics) ==
  LoopOverT1(T1s, T2s, metrics, 0,
             <<[k \in 1..Len(T1s) |-> 0], [k \in 1..Len(T1s) |-> Flt(0)]>>)

(***************************************************************************)
(* GenerateData, parallel part (lines 157-174).                            *)
(***************************************************************************)
\* line 158: a thread of the team gets an outer index that is not yet handed out
TakeIteration(w) ==
  /\ phase = "search"
  /\ th[w].pc = "for"
  /\ \E i \in todo :
       /\ todo' = todo \ {i}
       /\ th' = [th EXCEPT ![w] = [Idle EXCEPT !.pc = "enter_sentinel", !.i = i]]
  /\ UNCHANGED <<cout_rdbuf, old, metric_calls, after_call>>
  /\ UNCHANGED <<pool, numThreads, m_NumPoints, m_Metrics, m_Tracts1,
                 m_Tracts2, m_Indices, m_Distances, disp, phase, T1, T2,
                 num_fibs1, num_fibs2, set_columns, lock>>

\* the three sections entered without waiting for the lock
EnterCriticalFree(w) ==
  /\ phase = "search"
  /\ th[w].pc \in {"enter_sentinel", "enter_tick", "enter_update"}
  /\ lock' = w
  /\ th' = [th EXCEPT ![w].pc =
              IF th[w].pc = "enter_sentinel" THEN "sentinel"
              ELSE IF th[w].pc = "enter_tick" THEN "tick" ELSE "update"]
  /\ UNCHANGED <<cout_rdbuf, old, metric_calls, after_call>>
  /\ UNCHANGED <<pool, numThreads, m_NumPoints, m_Metrics, m_Tracts1,
                 m_Tracts2, m_Indices, m_Distances, disp, phase, T1, T2,
                 num_fibs1, num_fibs2, set_columns, todo>>

\* lines 111, 161, 167: entry of #pragma omp critical
EnterCritical(w) ==
  /\ phase = "search"
  /\ th[w].pc \in {"enter_sentinel", "enter_tick", "enter_update"}
  /\ lock = 0
  /\ lock' = w
  /\ th' = [th EXCEPT ![w].pc =
              IF th[w].pc = "enter_sentinel" THEN "sentinel"
              ELSE IF th[w].pc = "enter_tick" THEN "tick" ELSE "update"]
  /\ UNCHANGED <<cout_rdbuf, old, metric_calls, after_call>>
  /\ UNCHANGED <<pool, numThreads, m_NumPoints, m_Metrics, m_Tracts1,
                 m_Tracts2, m_Indices, m_Distances, disp, phase, T1, T2,
                 num_fibs1, num_fibs2, set_columns, todo>>

\* lines 162-163: m_Distances[i] = 99999, then the head of the loop over T2
WriteSentinel(w) ==
  /\ phase = "search"
  /\ th[w].pc = "sentinel"
  /\ lock = w
  /\ m_Distances' = [m_Distances EXCEPT ![Slot(th[w].i)] = Flt(DistSentinel)]
  /\ lock' = 0
  /\ th' = [th EXCEPT ![w] = InnerLoop(th[w].i, 0)]
  /\ UNCHANGED <<cout_rdbuf, old, metric_calls, after_call>>
  /\ UNCHANGED <<pool, numThreads, m_NumPoints, m_Metrics, m_Tracts1,
                 m_Tracts2, m_Indices, disp, phase, T1, T2, num_fibs1,
                 num_fibs2, set_columns, todo>>

\* line 112: ++disp
Tick(w) ==
  /\ phase = "search"
  /\ th[w].pc = "tick"
  /\ lock = w
  /\ disp' = [disp EXCEPT !.count = Incremented(disp.count)]
  /\ lock' = 0
  /\ th' = [th EXCEPT ![w].pc = "metric"]
  /\ UNCHANGED <<cout_rdbuf, old, metric_calls, after_call>>
  /\ UNCHANGED <<pool, numThreads, m_NumPoints, m_Metrics, m_Tracts1,
                 m_Tracts2, m_Indices, m_Distances, phase, T1, T2, num_fibs1,
                 num_fibs2, set_columns, todo>>

\* lines 113-124: the metric, the minimum, and the loop heads that follow
Metric(w) ==
  /\ phase = "search"
  /\ th[w].pc = "metric"
  /\ LET t == th[w]
         f1 == T1[t.i + 1][t.r + 1]
         f2 == T2[t.j + 1][t.c + 1]
         d == CalculateDistance(m_Metrics[t.m], f1, f2)
         min_d == IF Closer(d, t.min_d) THEN d ELSE t.min_d
     IN th' = [th EXCEPT ![w] =
                 IF t.c + 1 < Len(T2[t.j + 1])
                 THEN [t EXCEPT !.pc = "enter_tick", !.c = t.c + 1,
                                !.min_d = min_d]
                 ELSE AfterLoopHeads(t.i, t.j, t.m, t.r + 1,
                                     FAdd(t.distance, min_d))]
  /\ metric_calls' = metric_calls + 1
  /\ UNCHANGED <<cout_rdbuf, old, after_call>>
  /\ UNCHANGED <<pool, numThreads, m_NumPoints, m_Metrics, m_Tracts1,
                 m_Tracts2, m_Indices, m_Distances, disp, phase, T1, T2,
                 num_fibs1, num_fibs2, set_columns, todo, lock>>

\* lines 168-172, then ++j and the head of the loop over T2
Update(w) ==
  /\ phase = "search"
  /\ th[w].pc = "update"
  /\ lock = w
  /\ IF Better(th[w].d, m_Distances[Slot(th[w].i)])
     THEN /\ m_Distances' = [m_Distances EXCEPT ![Slot(th[w].i)] = th[w].d]
          /\ m_Indices' = [m_Indices EXCEPT ![Slot(th[w].i)] = th[w].j]
     ELSE UNCHANGED <<m_Distances, m_Indices>>
  /\ lock' = 0
  /\ th' = [th EXCEPT ![w] = InnerLoop(th[w].i, th[w].j + 1)]
  /\ UNCHANGED <<cout_rdbuf, old, metric_calls, after_call>>
  /\ UNCHANGED <<pool, numThreads, m_NumPoints, m_Metrics, m_Tracts1,
                 m_Tracts2, disp, phase, T1, T2, num_fibs1, num_fibs2,
                 set_columns, todo>>

\* line 174: the barrier that ends the parallel for; line 175: return
Join ==
  /\ phase = "search"
  /\ todo = {}
  /\ \A w \in Threads : th[w].pc = "for"
  /\ phase' = "returned"
  /\ UNCHANGED <<cout_rdbuf, old, metric_calls, after_call>>
  /\ UNCHANGED <<pool, numThreads, m_NumPoints, m_Metrics, m_Tracts1,
                 m_Tracts2, m_Indices, m_Distances, disp, T1, T2, num_fibs1,
                 num_fibs2, set_columns, todo, th, lock>>

Next ==
  \/ \E Tracts1 \in Collections : SetTracts1(Tracts1)
  \/ \E Tracts2 \in Collections : SetTracts2(Tracts2)
  \/ \E Metrics \in MetricSets : SetMetrics(Metrics)
  \/ GenerateDataThrows
  \/ GenerateDataBegin
  \/ Redirect
  \/ Resample1
  \/ Resample2
  \/ StartSearch
  \/ \E w \in Threads : TakeIteration(w)
  \/ \E w \in Threads : EnterCritical(w)
  \/ \E w \in Threads : WriteSentinel(w)
  \/ \E w \in Threads : Tick(w)
  \/ \E w \in Threads : Metric(w)
  \/ \E w \in Threads : Update(w)
  \/ Join

Spec == Init /\ [][Next]_vars

(***************************************************************************)
(* ResampleFibers on its own: one bundle of up to MaxTracts tracts of up   *)
(* to m_NumPoints + 1 points, for a resample count of 2..MaxNumPoints.     *)
(* The second point's x is the first integer that float does not hold.     *)
(***************************************************************************)
PointSet == {<<1, 2, 3>>, <<16777217, 0, -5>>}

ResampleBundles(n) == SeqsUpTo(SeqsUpTo(PointSet, n + 1), MaxTracts)

InitResample ==
  /\ pool = {}
  /\ numThreads = 1
  /\ m_NumPoints \in 2..MaxNumPoints
  /\ m_Metrics = <<"StartX">>
  /\ m_Tracts1 \in {<<b>> : b \in ResampleBundles(m_NumPoints)}
  /\ m_Tracts2 = <<>>
  /\ m_Indices = <<>>
  /\ m_Distances = <<>>
  /\ disp = [count |-> 0, expected |-> 0]
  /\ phase = "resample"
  /\ T1 = <<>>
  /\ T2 = <<>>
  /\ num_fibs1 = 0
  /\ num_fibs2 = 0
  /\ set_columns = {}
  /\ todo = {}
  /\ th = [w \in Threads |-> Idle]
  /\ lock = 0
  /\ cout_rdbuf = "console"
  /\ old = "none"
  /\ metric_calls = 0
  /\ after_call = FALSE

NextResample == Redirect \/ Resample1

SpecResample == InitResample /\ [][NextResample]_vars

(***************************************************************************)
(* Properties.                                                             *)
(***************************************************************************)
RECURSIVE TotalCurves(_)
TotalCurves(tracts) ==
  IF tracts = <<>> THEN 0
  ELSE Len(Head(tracts)) + TotalCurves(Tail(tracts))

ProgressTotal ==
  Len(m_Metrics) * TotalCurves(m_Tracts1) * TotalCurves(m_Tracts2)

InCall == {"resample", "search", "returned"}

\* C1 as stated: throughout a call the progress counter never exceeds
\* |metrics| x (curves of collection 1) x (curves of collection 2), and it
\* equals that number when the call returns.
C1_ProgressWithinTotal ==
  phase \in InCall =>
    /\ disp.count <= ProgressTotal
    /\ phase = "returned" => disp.count = ProgressTotal

\* C1: from its reset at the start of the parallel search on, the progress
\* counter never exceeds |metrics| x (curves of collection 1) x (curves of
\* collection 2), and it equals that number when the call returns.
C1_ProgressAfterReset ==
  phase \in {"search", "returned"} =>
    /\ disp.count <= ProgressTotal
    /\ disp.expected = ProgressTotal
    /\ phase = "returned" => disp.count = ProgressTotal

C1_Witness ==
  /\ phase = "returned"
  /\ numThreads = 2
  /\ Len(m_Tracts1) = 2
  /\ disp.count = ProgressTotal
  /\ disp.count >= 8

\* C2: a call made with no metric selected fails, and it leaves the stored
\* result vectors, the progress counter and the working copies as they were
\* and runs no worker.
C2_EmptyMetricsFailsUntouched ==
  [][(phase \in CallerPhases /\ m_Metrics = <<>> /\ phase' # "config") =>
       /\ phase' = "failed"
       /\ UNCHANGED <<m_Indices, m_Distances, disp, T1, T2, num_fibs1,
                      num_fibs2, set_columns, todo, th, lock>>]_vars

C2_Witness ==
  /\ phase = "failed"
  /\ m_Metrics = <<>>
  /\ Len(m_Indices) = 2
  /\ Len(m_Distances) = 2
  /\ disp.count > 0

DistancesFrom(i) ==
  [j \in 1..Len(T2) |-> calc_distance(T1[i], T2[j], m_Metrics)]

\* C3: on return with a non-empty second collection, distances[i] is the
\* least aggregated distance from bundle i to the bundles of the second
\* collection, and indices[i] is a bundle that has that distance.
C3_BestMatch ==
  (phase = "returned" /\ Len(T2) > 0) =>
    \A i \in 1..Len(T1) :
       LET ds == DistancesFrom(i)
       IN /\ \A j \in 1..Len(T2) : ~FLess(ds[j], m_Distances[i])
          /\ m_Indices[i] + 1 \in 1..Len(T2)
          /\ m_Distances[i] = ds[m_Indices[i] + 1]

Attaining(i) ==
  LET ds == DistancesFrom(i)
  IN {j \in 1..Len(T2) :
        /\ ~IsNaN(ds[j])
        /\ \A k \in 1..Len(T2) : ~FLess(ds[k], ds[j])}

\* C4: when several bundles of the second collection have the least
\* distance to bundle i, indices[i] is the smallest of their indices.
C4_FirstMinimumWins ==
  phase = "returned" =>
    \A i \in 1..Len(T1) :
       Attaining(i) # {} =>
         /\ m_Indices[i] + 1 \in Attaining(i)
         /\ \A j \in Attaining(i) : m_Indices[i] + 1 <= j

C4_Witness ==
  /\ phase = "returned"
  /\ numThreads = 2
  /\ \E i \in 1..Len(T1) :
        /\ Cardinality(Attaining(i)) >= 2
        /\ m_Indices[i] = 0

\* C5: what a call stores with several workers is what the same call
\* stores with the loops run by one worker in index order.
C5_SameAsSingleThread ==
  phase = "returned" =>
    <<m_Indices, m_Distances>> = SingleThreadResult(T1, T2, m_Metrics)

C5_Witness ==
  /\ phase = "returned"
  /\ numThreads = 2
  /\ Len(T1) = 2
  /\ m_Indices[1] # m_Indices[2]
  /\ m_Distances[1] = m_Distances[2]

\* C6: a call with a metric selected comes to its return, and then both
\* result vectors have one entry per bundle of the first collection.
C6_CallReturns ==
  /\ phase \notin CallerPhases => ENABLED Next
  /\ phase = "returned" =>
       /\ Len(m_Indices) = Len(m_Tracts1)
       /\ Len(m_Distances) = Len(m_Tracts1)

LeastOf(S) == CHOOSE v \in S : \A u \in S : ~FLess(u, v)

RECURSIVE SumOfLeast(_, _, _, _)
SumOfLeast(metrics, A, B, k) ==
  IF k > Len(metrics) * Len(A) THEN Flt(0)
  ELSE LET m == ((k - 1) \div Len(A)) + 1
           a == ((k - 1) % Len(A)) + 1
       IN FAdd(LeastOf({CalculateDistance(metrics[m], A[a], B[b]) :
                          b \in 1..Len(B)}),
               SumOfLeast(metrics, A, B, k + 1))

AggregateFormula(A, B, metrics) ==
  FDivCount(SumOfLeast(metrics, A, B, 1), Len(A) * Len(metrics))

\* C7: for non-empty bundles A and B, the aggregated distance is the sum
\* over every metric and every curve of A of the least metric value against
\* the curves of B, divided by |A| x |metrics|.
C7_AggregateFormula ==
  \A w \in Threads :
     (/\ phase = "search"
      /\ th[w].pc = "enter_update"
      /\ Len(T1[th[w].i + 1]) > 0
      /\ Len(T2[th[w].j + 1]) > 0) =>
       th[w].d = AggregateFormula(T1[th[w].i + 1], T2[th[w].j + 1], m_Metrics)

NarrowPoint(p) == <<NarrowToFloat(p[1]), NarrowToFloat(p[2]), NarrowToFloat(p[3])>>

\* C8: resampling gives every curve exactly m_NumPoints columns, column j
\* holding source point j and zero columns after the last source point, and
\* it writes no column of index m_NumPoints or more, whatever the number of
\* points of the source curve.
C8_ResamplerColumns ==
  /\ \A j \in set_columns : j < m_NumPoints
  /\ (phase = "resample" /\ Len(T1) = 1) =>
       /\ Len(T1[1]) = Len(m_Tracts1[1])
       /\ \A k \in 1..Len(T1[1]) :
            /\ Len(T1[1][k]) = m_NumPoints
            /\ \A j \in 1..m_NumPoints :
                 T1[1][k][j] = IF j <= Len(m_Tracts1[1][k])
                               THEN NarrowPoint(m_Tracts1[1][k][j])
                               ELSE <<0, 0, 0>>

\* C9: during the search a slot of distances or indices changes only in a
\* step of the worker that runs the outer index of that slot, and no other
\* worker runs that outer index.
C9_SlotIsolation ==
  [][(phase = "search" /\ phase' = "search") =>
       \A k \in 1..Len(m_Distances) :
          (m_Distances'[k] # m_Distances[k] \/ m_Indices'[k] # m_Indices[k]) =>
            \E w \in Threads :
               /\ lock = w
               /\ th[w].pc \in {"sentinel", "update"}
               /\ k = th[w].i + 1
               /\ \A v \in Threads \ {w} :
                     th[v].pc # "for" => th[v].i # th[w].i]_vars

C9_Witness ==
  /\ phase = "search"
  /\ \E w \in Threads, v \in Threads :
        /\ w # v
        /\ lock = w
        /\ th[w].pc = "update"
        /\ Better(th[w].d, m_Distances[th[w].i + 1])
        /\ th[v].pc = "enter_update"
        /\ th[v].i # th[w].i
        /\ Better(th[v].d, m_Distances[th[v].i + 1])

\* C10: a call changes neither input collection, nor the metric set, nor
\* the resample count.
C10_InputsUnchanged ==
  [][phase' # "config" =>
       UNCHANGED <<m_Tracts1, m_Tracts2, m_Metrics, m_NumPoints>>]_vars

C10_Witness ==
  /\ phase = "returned"
  /\ Len(T1) = Len(m_Tracts1)
  /\ \E k \in 1..Len(T1) : T1[k] # m_Tracts1[k]

\* no thread has gone past the sentinel write of its first outer index
NoComparisonYet ==
  /\ phase = "search"
  /\ metric_calls = 0
  /\ \A w \in Threads : th[w].pc \in {"for", "enter_sentinel", "sentinel"}
  /\ Cardinality(todo) + Cardinality({w \in Threads : th[w].pc # "for"})
       = Len(T1)

\* C11: before any worker compares a pair of bundles, every entry of
\* distances holds the sentinel 99999 and every entry of indices holds a
\* value that is not an index into the second collection.
C11_SentinelInit ==
  NoComparisonYet =>
    \A k \in 1..Len(m_Distances) :
       /\ m_Distances[k] = Flt(DistSentinel)
       /\ m_Indices[k] \notin 0..(Len(T2) - 1)

\* the slots of the result vectors that a step changes
WrittenSlots ==
  {k \in 1..Len(m_Distances) :
     m_Distances'[k] # m_Distances[k] \/ m_Indices'[k] # m_Indices[k]}

\* the step is the compare-and-update of lines 168-172 by the lock's owner
UpdateStep ==
  /\ phase = "search"
  /\ phase' = "search"
  /\ lock \in Threads
  /\ th[lock].pc = "update"

\* C12 as stated: after its sentinel initialisation a result slot is written
\* exactly once, so a write finds the slot still holding the sentinel.
C12_SingleOverwrite ==
  [][UpdateStep =>
       \A k \in WrittenSlots : m_Distances[k] = Flt(DistSentinel)]_vars

\* C12: after its sentinel initialisation a result slot is written only by
\* the compare-and-update of its outer index, at most once per bundle of the
\* second collection; every such write stores the distance and the index of
\* the bundle just compared together, and strictly lowers the distance, so
\* running minima are stored before the final best value.
C12_RunningMinimum ==
  [][UpdateStep =>
       \A k \in WrittenSlots :
          /\ k = th[lock].i + 1
          /\ m_Distances'[k] = th[lock].d
          /\ m_Indices'[k] = th[lock].j
          /\ FLess(m_Distances'[k], m_Distances[k])
          /\ m_Indices'[k] >= m_Indices[k]
          /\ th'[lock].pc = "for" \/ th'[lock].j = th[lock].j + 1]_vars

\* a worker is about to replace a stored running minimum by a smaller one
C12_Witness ==
  /\ phase = "search"
  /\ lock \in Threads
  /\ th[lock].pc = "update"
  /\ th[lock].j > 0
  /\ m_Distances[th[lock].i + 1] # Flt(DistSentinel)
  /\ Better(th[lock].d, m_Distances[th[lock].i + 1])

\* what ResampleFibers returns for each bundle of a collection whose cells
\* all fit into m_NumPoints columns
Resampled(tracts) ==
  [k \in 1..Len(tracts) |-> ResampleFibers(tracts[k], m_NumPoints, "inbounds")]

AllFit ==
  /\ \A k \in 1..Len(m_Tracts1) : ~Overruns(m_Tracts1[k], m_NumPoints)
  /\ \A k \in 1..Len(m_Tracts2) : ~Overruns(m_Tracts2[k], m_NumPoints)

AllResampled ==
  /\ old = "none"
  /\ Len(T1) = Len(m_Tracts1)
  /\ Len(T2) = Len(m_Tracts2)

\* the step appends the curves of the next bundle, in the order of the two
\* collections, to T1 or to T2
ResamplesNext ==
  \/ /\ Len(T1) < Len(m_Tracts1)
     /\ T2 = <<>>
     /\ T2' = T2
     /\ \E mode \in ResampleModes(m_Tracts1[Len(T1) + 1], m_NumPoints) :
          T1' = Append(T1, ResampleFibers(m_Tracts1[Len(T1) + 1], m_NumPoints, mode))
  \/ /\ Len(T1) = Len(m_Tracts1)
     /\ Len(T2) < Len(m_Tracts2)
     /\ T1' = T1
     /\ \E mode \in ResampleModes(m_Tracts2[Len(T2) + 1], m_NumPoints) :
          T2' = Append(T2, ResampleFibers(m_Tracts2[Len(T2) + 1], m_NumPoints, mode))

\* C14: in a call, the bundles of both collections are resampled one after
\* the other, each once, while no worker runs; the progress counter is reset
\* in one step, taken once, when all of them are resampled; every metric
\* invocation and every write to a result slot comes after that step.
C14_PhaseOrdering ==
  [][/\ (phase = "resample" /\ <<T1, T2>>' # <<T1, T2>>) =>
          /\ ResamplesNext
          /\ lock = 0
          /\ todo = {}
          /\ \A w \in Threads : th[w] = Idle
          /\ metric_calls = 0
          /\ disp' = disp
          /\ phase' = "resample"
     /\ (phase' = "search" /\ phase # "search") =>
          /\ phase = "resample"
          /\ AllResampled
          /\ metric_calls = 0
          /\ disp' = [count |-> 0, expected |-> ProgressTotal]
     /\ (phase = "resample" /\ phase' = "resample") => disp' = disp
     /\ phase = "search" =>
          /\ disp'.expected = disp.expected
          /\ disp'.count >= disp.count
          /\ <<T1, T2>>' = <<T1, T2>>
     /\ metric_calls' > metric_calls => (phase = "search" /\ phase' = "search")
     /\ (phase \in {"search", "resample"} /\ phase' \in {"search", "resample"}
         /\ Len(m_Distances') = Len(m_Distances) /\ WrittenSlots # {}) =>
          phase = "search"]_vars

\* a later call of the object, all four bundles resampled, metrics running
C14_Witness ==
  /\ phase = "search"
  /\ after_call
  /\ Len(T1) = 2
  /\ Len(T2) = 2
  /\ metric_calls > 0
  /\ disp.count < disp.expected

\* workers that have counted a triple and not yet got its metric value
BetweenTickAndMetric(t) == {w \in Threads : t[w].pc = "metric"}

\* C15: from its reset to the end of the call the progress counter moves
\* only by +1, each time by the worker that invokes the metric for one
\* (metric, curve of A, curve of B) triple next, and the counter exceeds the
\* number of completed metric invocations by the number of workers between
\* the two, which is at most the number of workers.
C15_ProgressTicks ==
  [][phase' \in {"search", "returned"} =>
       /\ disp'.count - metric_calls' = Cardinality(BetweenTickAndMetric(th'))
       /\ disp'.count - metric_calls' \in 0..numThreads
       /\ phase = "search" =>
            /\ disp'.count \in {disp.count, disp.count + 1}
            /\ disp'.count = disp.count + 1 =>
                 \E w \in Threads :
                    /\ th[w].pc = "tick"
                    /\ th'[w] = [th[w] EXCEPT !.pc = "metric"]
                    /\ th[w].m \in 1..Len(m_Metrics)
                    /\ th[w].r < Len(T1[th[w].i + 1])
                    /\ th[w].c < Len(T2[th[w].j + 1])
                    /\ metric_calls' = metric_calls]_vars

\* both workers have counted their triple, neither has its metric value yet
C15_Witness ==
  /\ phase = "search"
  /\ numThreads = 2
  /\ metric_calls > 0
  /\ disp.count - metric_calls = 2

(***************************************************************************)
(* One object configured with a metric that returns NaN and infinities,    *)
(* and its calls of GenerateData.                                          *)
(***************************************************************************)
BundleZero == <<Line(0, DefaultNumPoints)>>
BundleMinus == <<Line(-1, DefaultNumPoints)>>
BundleTwo == <<Line(2, DefaultNumPoints)>>
BundleZeroTwo == <<Line(0, DefaultNumPoints), Line(2, DefaultNumPoints)>>

AnomalyMetricSets == {<<"StartRatio">>, <<"StartX", "StartRatio">>}

InitAnomaly ==
  /\ pool = {BundleZero, BundleOne, BundleMinus, BundleTwo, BundleZeroTwo}
  /\ numThreads \in 1..MaxThreads
  /\ m_NumPoints = DefaultNumPoints
  /\ m_Metrics \in AnomalyMetricSets
  /\ m_Tracts1 \in {<<b>> : b \in {BundleZero, BundleOne, BundleMinus}}
  /\ m_Tracts2 \in SeqsUpTo({BundleZero, BundleTwo, BundleZeroTwo}, MaxBundles)
  /\ m_Indices = <<>>
  /\ m_Distances = <<>>
  /\ disp = [count |-> 0, expected |-> 0]
  /\ phase = "config"
  /\ T1 = <<>>
  /\ T2 = <<>>
  /\ num_fibs1 = 0
  /\ num_fibs2 = 0
  /\ set_columns = {}
  /\ todo = {}
  /\ th = [w \in Threads |-> Idle]
  /\ lock = 0
  /\ cout_rdbuf = "console"
  /\ old = "none"
  /\ metric_calls = 0
  /\ after_call = FALSE

\* GenerateData from its call to its return
NextCall ==
  \/ GenerateDataBegin
  \/ Redirect
  \/ Resample1
  \/ Resample2
  \/ StartSearch
  \/ \E w \in Threads : TakeIteration(w)
  \/ \E w \in Threads : EnterCritical(w)
  \/ \E w \in Threads : WriteSentinel(w)
  \/ \E w \in Threads : Tick(w)
  \/ \E w \in Threads : Metric(w)
  \/ \E w \in Threads : Update(w)
  \/ Join

SpecAnomaly == InitAnomaly /\ [][NextCall]_vars

\* C16: a NaN or infinite metric value goes into the nearest-neighbour
\* minimum and the aggregate: for one metric and bundles of one curve each,
\* where the minimum is over that one value, calc_distance returns it.
C16_AnomalyPropagates ==
  \A w \in Threads :
     (/\ phase = "search"
      /\ th[w].pc = "enter_update"
      /\ Len(m_Metrics) = 1
      /\ Len(T1[th[w].i + 1]) = 1
      /\ Len(T2[th[w].j + 1]) = 1) =>
       LET v == CalculateDistance(m_Metrics[1], T1[th[w].i + 1][1],
                                  T2[th[w].j + 1][1])
       IN ~IsFinite(v) => th[w].d = v

\* C17: std::cout writes to another buffer than the console's only while a
\* call of ResampleFibers is under way; the buffer such a call saves and puts
\* back is the console's, never that of another call's stringstream; outside
\* ResampleFibers, and throughout the parallel search, it is the console's.
C17_ScopedRedirection ==
  /\ old = "none" => cout_rdbuf = "console"
  /\ old # "none" =>
       /\ old = "console"
       /\ cout_rdbuf = "ss"
       /\ phase \in {"resample", "aborted"}
       /\ Len(T1) < Len(m_Tracts1) \/ Len(T2) < Len(m_Tracts2)
  /\ phase \in {"search"} \cup CallerPhases => old = "none"

\* the search runs after four redirections, each undone
C17_Witness ==
  /\ phase = "search"
  /\ numThreads = 2
  /\ Len(T1) + Len(T2) = 4
  /\ cout_rdbuf = "console"
  /\ old = "none"
  /\ \E w \in Threads : th[w].pc = "metric"

(***************************************************************************)
(* The calls of GenerateData on two bundles against one or two, with every *)
(* thread of the team scheduled again and again: a thread that can take a  *)
(* step for good takes one, and so does the thread that called.            *)
(***************************************************************************)
InitFair ==
  /\ pool = PoolNear
  /\ numThreads \in 1..MaxThreads
  /\ m_NumPoints = DefaultNumPoints
  /\ m_Metrics = <<"StartX">>
  /\ m_Tracts1 = <<BundleNear, BundleOne>>
  /\ m_Tracts2 \in {<<BundleOne>>, <<BundleNear, BundleOne>>}
  /\ m_Indices = <<>>
  /\ m_Distances = <<>>
  /\ disp = [count |-> 0, expected |-> 0]
  /\ phase = "config"
  /\ T1 = <<>>
  /\ T2 = <<>>
  /\ num_fibs1 = 0
  /\ num_fibs2 = 0
  /\ set_columns = {}
  /\ todo = {}
  /\ th = [w \in Threads |-> Idle]
  /\ lock = 0
  /\ cout_rdbuf = "console"
  /\ old = "none"
  /\ metric_calls = 0
  /\ after_call = FALSE

\* the steps of thread w of the team
ThreadStep(w) ==
  /\ w \in Threads
  /\ \/ TakeIteration(w)
     \/ EnterCritical(w)
     \/ WriteSentinel(w)
     \/ Tick(w)
     \/ Metric(w)
     \/ Update(w)

\* the steps of the thread that called GenerateData
CallerStep ==
  \/ GenerateDataBegin
  \/ Redirect
  \/ Resample1
  \/ Resample2
  \/ StartSearch
  \/ Join

SpecFair ==
  /\ InitFair
  /\ [][NextCall]_vars
  /\ WF_vars(CallerStep)
  /\ \A w \in 1..MaxThreads : WF_vars(ThreadStep(w))

Requesting == {"enter_sentinel", "enter_tick", "enter_update"}

InsideCritical == {"sentinel", "tick", "update"}

Mutex ==
  /\ lock \in {0} \cup Threads
  /\ \A w \in Threads : th[w].pc \in InsideCritical <=> lock = w
  /\ Cardinality({w \in Threads : th[w].pc \in InsideCritical}) <= 1
  /\ phase # "search" => lock = 0

\* C18: at most one worker is inside a critical section, a worker inside
\* one requests none, every worker that requests one gets inside, and the
\* parallel phase comes to its end.
C18_CriticalSections ==
  /\ []Mutex
  /\ \A w \in 1..MaxThreads :
        (w <= numThreads /\ phase = "search" /\ th[w].pc \in Requesting)
          ~> (w <= numThreads /\ lock = w)
  /\ (phase = "search") ~> (phase = "returned")

\* one worker inside a critical section, the other waiting for it
C18_Witness ==
  /\ phase = "search"
  /\ numThreads = 2
  /\ lock = 1
  /\ th[1].pc = "update"
  /\ th[2].pc \in Requesting

\* C19: after a call, for every bundle i of the first collection, indices[i]
\* is an index into the second collection and distances[i] is the aggregated
\* distance from bundle i to the bundle of that index.
C19_ResultPairs ==
  phase = "returned" =>
    \A i \in 1..Len(T1) :
       /\ m_Indices[i] \in 0..(Len(T2) - 1)
       /\ m_Distances[i] = calc_distance(T1[i], T2[m_Indices[i] + 1], m_Metrics)

====
